---- MODULE Spec2Model ----
(***************************************************************************)
(* Color Matcher (src/game.js): the ScoreSystem, the DifficultyManager and *)
(* the Game orchestrator with its input handlers and its animation loop.   *)
(*                                                                         *)
(* Units.  The program computes in IEEE doubles; the model computes in     *)
(* integers of a fixed-point scale:                                        *)
(*   times (dt, elapsed, baseFallTime, spawnInterval, spawnTimer, particle *)
(*          life)                        milliseconds  (0.033 s = 33)      *)
(*   level                               tenths        (1.0 = 10)          *)
(*   health                              thousandths   (1.0 = 1000)        *)
(*   lengths (y, size, margin, ...)      millipixels   (46 px = 46000)     *)
(*   speed                               millipixels per second            *)
(* Rendering, the HUD, audio, a block's lane x, a particle's position and  *)
(* velocity and InputManager.pressedKeys do not feed back into the         *)
(* simulation and are left out.                                            *)
(***************************************************************************)
EXTENDS Integers, Sequences, FiniteSets, TLC

\* ---------------------------------------------------------------- bounds
\* Spec: a player who matches blocks, until the first block has fallen through
MaxScore       == 20     \* successful matches are disabled from this score on
MaxClock       == 2400   \* (ms) frame updates are disabled this long after start()
\* SpecCombo: a player who builds a combo on the first block with one key
MaxComboScore  == 2900
MaxComboClock  == 1300
\* SpecLong: a player who never matches a block, until the game is over
MaxLongClock   == 12300
\* SpecRestart: a player who lets the blocks fall, matches some at the end and
\* restarts after the game is over
LateClock      == 12000  \* (ms after start()) colour keys are pressed from here on
\* SpecResize: a player who resizes the window while blocks fall
MaxResizeClock == 2750
MaxPending     == 2      \* start()/resume() are disabled at this many queued frames
\* SpecShrink: a player who shrinks the window while blocks are on the screen
MaxShrinkClock == 13800
\* SpecLive: a player who never matches a block, with frames that keep coming
MaxLiveClock   == 12300
\* SpecScore, SpecDifficulty: the two classes driven through their methods
MaxHarnessScore == 2900  \* hit() is disabled from this score on
MaxHarnessLevel == 160   \* (tenths) onGoodHit() and the 12 s tick are disabled from it on

\* ------------------------------------------------------- program constants
COLORS == <<"r", "b", "g", "y", "p", "o">>          \* the key of each mapping
MaxDt          == 33        \* Math.min(0.033, ...) in #loop
hitZoneHeight  == 90000
margin         == 24000
blockBaseSize  == 46000
capFallTime      == 700
minSpawnInterval == 350
LevelPeriod      == 12000   \* elapsed >= 12
HealthStep       == 340     \* 0.34, threshold and decrement of #damage
BurstSize        == 24      \* particles per successful hit

\* ----------------------------------------------------- environment inputs
ClientWidths  == {320}       \* canvas.clientWidth when the game is constructed
ResizeWidths  == {320, 584}  \* canvas.clientWidth at a resize event
SpawnKeys     == {"r", "b"} \* the mappings Random.choice(COLORS) is let to draw
PressKeys     == {"r", "b"} \* the colour keys the player is let to press
ComboKeys     == {"r"}      \* the same in SpecCombo
ParticleLives == {350}      \* Random.range(0.35, 0.7)
ShrinkWidths  == {32, 320}   \* the same in SpecShrink
ResizeTimes   == {0, 1320, 13761}  \* (ms after start()) resize events of SpecShrink
FrameDts      == {33}       \* time between two animation frames, capped at MaxDt
HarnessDts    == {33, 6000} \* the dt of DifficultyManager.update(dt) called directly

Min(a, b) == IF a < b THEN a ELSE b
Max(a, b) == IF a > b THEN a ELSE b

VARIABLES
  state,        \* Game.state: "start", "running", "paused", "game_over"
  blocks,       \* Game.blocks: sequence of [y, speed, key, markedForRemoval]
  particles,    \* Game.particles: sequence of bursts [life, count]
  scoreSystem,  \* Game.scoreSystem: [score, combo, streak, bestCombo]
  difficulty,   \* Game.difficulty: [elapsed, level, baseFallTime, spawnInterval]
  spawnTimer,   \* Game.spawnTimer
  health,       \* Game.health
  lives,        \* Game.lives
  height,       \* canvas.height
  pending,      \* requestAnimationFrame callbacks queued for the next frame
  ready,        \* callbacks of the current frame that have not run yet
  sameFrame,    \* TRUE when lastTime is the timestamp of the current frame
  clock,        \* history: simulated time since start()
  hist,         \* history: [hits, clean, dmg, lives0], see NoHistory
  ev            \* history: what the last handler did

vars == <<state, blocks, particles, scoreSystem, difficulty, spawnTimer,
          health, lives, height, pending, ready, sameFrame, clock, hist, ev>>

gameVars == <<state, blocks, particles, spawnTimer, health, lives, height,
              pending, ready, sameFrame, clock>>

\* ------------------------------------------------------------ ScoreSystem
ScoreSystem_new == [score |-> 0, combo |-> 1, streak |-> 0, bestCombo |-> 1]

ScoreSystem_reset(s) == [score |-> 0, combo |-> 1, streak |-> 0, bestCombo |-> 1]

\* hit() without the cap of the combo
hit_nocap(s) ==
  LET streak1 == s.streak + 1
      combo1  == IF streak1 % 5 = 0 THEN s.combo + 1 ELSE s.combo
      best1   == Max(s.bestCombo, combo1)
      points  == 10 * combo1
  IN  [ss |-> [score |-> s.score + points, combo |-> combo1,
               streak |-> streak1, bestCombo |-> best1],
       points |-> points]

\* hit() testing the streak before it is incremented
hit_latestreak(s) ==
  LET streak1 == s.streak + 1
      combo1  == IF s.streak % 5 = 0 THEN Min(10, s.combo + 1) ELSE s.combo
      best1   == Max(s.bestCombo, combo1)
      points  == 10 * combo1
  IN  [ss |-> [score |-> s.score + points, combo |-> combo1,
               streak |-> streak1, bestCombo |-> best1],
       points |-> points]

\* hit() awarding the points of the combo before its update
hit_oldcombo(s) ==
  LET streak1 == s.streak + 1
      combo1  == IF streak1 % 5 = 0 THEN Min(10, s.combo + 1) ELSE s.combo
      best1   == Max(s.bestCombo, combo1)
      points  == 10 * s.combo
  IN  [ss |-> [score |-> s.score + points, combo |-> combo1,
               streak |-> streak1, bestCombo |-> best1],
       points |-> points]

\* hit(): ss is the ScoreSystem after the call, points the value returned
hit(s) ==
  LET streak1 == s.streak + 1
      combo1  == IF streak1 % 5 = 0 THEN Min(10, s.combo + 1) ELSE s.combo
      best1   == Max(s.bestCombo, combo1)
      points  == 10 * combo1
  IN  [ss |-> [score |-> s.score + points, combo |-> combo1,
               streak |-> streak1, bestCombo |-> best1],
       points |-> points]

\* miss() that forgets the combo
miss_keepcombo(s) == [s EXCEPT !.streak = 0]

miss(s) == [s EXCEPT !.streak = 0, !.combo = 1]

\* ------------------------------------------------------ DifficultyManager
DifficultyManager_new ==
  [elapsed |-> 0, level |-> 10, baseFallTime |-> 2000, spawnInterval |-> 1200]

DifficultyManager_reset(d) ==
  [elapsed |-> 0, level |-> 10, baseFallTime |-> 2000, spawnInterval |-> 1200]

\* #recompute without the floor of the spawn interval
recompute_nofloor(d) ==
  [d EXCEPT !.baseFallTime  = Max(capFallTime, 2000 - d.level * 12),
            !.spawnInterval = 1200 - d.level * 6]

\* #recompute with the fall time growing with the level
recompute_slower(d) ==
  [d EXCEPT !.baseFallTime  = Max(capFallTime, 2000 + d.level * 12),
            !.spawnInterval = Max(minSpawnInterval, 1200 - d.level * 6)]

\* #recompute: 2.0 - level * 0.12 is 2000 - 12 * level in ms and tenths
recompute(d) ==
  [d EXCEPT !.baseFallTime  = Max(capFallTime, 2000 - d.level * 12),
            !.spawnInterval = Max(minSpawnInterval, 1200 - d.level * 6)]

onGoodHit(d) == recompute([d EXCEPT !.level = d.level + 1])

DifficultyManager_update(d, dt) ==
  LET e == d.elapsed + dt
  IN  IF e >= LevelPeriod
        THEN recompute([d EXCEPT !.elapsed = 0, !.level = d.level + 10])
        ELSE [d EXCEPT !.elapsed = e]

\* pixels per second; here millipixels per second, rounded down
fallSpeedFor(d, heightPx) ==
  LET time == Max(capFallTime, d.baseFallTime)
  IN  (heightPx * 1000) \div time

\* ------------------------------------------------------------------ Block
Block_new(y, size, speed, mapping) ==
  [y |-> y, size |-> size, speed |-> speed, key |-> mapping,
   markedForRemoval |-> FALSE]

Block_update(b, dt) == [b EXCEPT !.y = b.y + (b.speed * dt) \div 1000]

isInHitZone(b, hitTop, hitBottom) ==
  b.y + b.size >= hitTop /\ b.y <= hitBottom

\* --------------------------------------------------------------- Particle
\* The BurstSize particles of one burst are kept as one entry: they are
\* created together and the model gives them the same life.
Particle_new(life) == [life |-> life, count |-> BurstSize, alive |-> TRUE]

Particle_update(p, dt) ==
  IF ~p.alive THEN p
  ELSE IF p.life - dt <= 0 THEN [p EXCEPT !.life = p.life - dt, !.alive = FALSE]
  ELSE [p EXCEPT !.life = p.life - dt]

\* ---------------------------------------------------------------- history
\* hits:   hit() calls since the last reset(), while no miss() came between
\* clean:  no miss() since the last reset()
\* dmg:    #damage calls since health was last known full, 3 when the third
\*         of them has just run; lives0: the lives at that moment
NoHistory(l) == [hits |-> 0, clean |-> TRUE, dmg |-> 0, lives0 |-> l]

noteHit(h)  == IF h.clean THEN [h EXCEPT !.hits = h.hits + 1] ELSE h
noteMiss(h) == [h EXCEPT !.hits = 0, !.clean = FALSE]
noteReset(h) == [h EXCEPT !.hits = 0, !.clean = TRUE]
noteDamage(h, livesBefore) ==
  IF h.dmg = 3 THEN [h EXCEPT !.dmg = 1, !.lives0 = livesBefore]
               ELSE [h EXCEPT !.dmg = h.dmg + 1]

NoEvent ==
  [op |-> "new", key |-> "", acted |-> FALSE, cand |-> 0, hits |-> 0,
   misses |-> 0, damages |-> 0, gained |-> 0, dt |-> 0, combo0 |-> 1,
   score0 |-> 0]

\* ------------------------------------------------------------------- Game
SeqMap(f(_), s) == [i \in 1..Len(s) |-> f(s[i])]

hitTopOf(h)    == h - hitZoneHeight - margin
hitBottomOf(h) == h - margin

\* the loop of #attemptMatch keeping the last of several lowest blocks
RECURSIVE scanCandidate_lastwins(_, _, _, _, _)
scanCandidate_lastwins(bs, key, h, i, cand) ==
  IF i > Len(bs) THEN cand
  ELSE IF /\ bs[i].key = key
          /\ isInHitZone(bs[i], hitTopOf(h), hitBottomOf(h))
          /\ (cand = 0 \/ bs[i].y >= bs[cand].y)
       THEN scanCandidate_lastwins(bs, key, h, i + 1, i)
       ELSE scanCandidate_lastwins(bs, key, h, i + 1, cand)

\* the loop of #attemptMatch: index of the candidate, 0 for null
RECURSIVE scanCandidate(_, _, _, _, _)
scanCandidate(bs, key, h, i, cand) ==
  IF i > Len(bs) THEN cand
  ELSE IF /\ bs[i].key = key
          /\ isInHitZone(bs[i], hitTopOf(h), hitBottomOf(h))
          /\ (cand = 0 \/ bs[i].y > bs[cand].y)
       THEN scanCandidate(bs, key, h, i + 1, i)
       ELSE scanCandidate(bs, key, h, i + 1, cand)

findCandidate(bs, key, h) == scanCandidate(bs, key, h, 1, 0)

\* #damage with a threshold of 0.3
damage_lowthreshold(g) ==
  LET g1 == IF g.health > 300
              THEN [g EXCEPT !.health = g.health - HealthStep]
              ELSE [g EXCEPT !.lives = g.lives - 1, !.health = 1000]
  IN  IF g1.lives <= 0 THEN [g1 EXCEPT !.state = "game_over"] ELSE g1

\* #damage that ends the game below zero lives only
damage_belowzero(g) ==
  LET g1 == IF g.health > HealthStep
              THEN [g EXCEPT !.health = g.health - HealthStep]
              ELSE [g EXCEPT !.lives = g.lives - 1, !.health = 1000]
  IN  IF g1.lives < 0 THEN [g1 EXCEPT !.state = "game_over"] ELSE g1

\* #damage that restores health without taking a life
damage_nolife(g) ==
  LET g1 == IF g.health > HealthStep
              THEN [g EXCEPT !.health = g.health - HealthStep]
              ELSE [g EXCEPT !.health = 1000]
  IN  IF g1.lives <= 0 THEN [g1 EXCEPT !.state = "game_over"] ELSE g1

\* #damage on the record [health, lives, state]; gameOver() when lives <= 0
damage(g) ==
  LET g1 == IF g.health > HealthStep
              THEN [g EXCEPT !.health = g.health - HealthStep]
              ELSE [g EXCEPT !.lives = g.lives - 1, !.health = 1000]
  IN  IF g1.lives <= 0 THEN [g1 EXCEPT !.state = "game_over"] ELSE g1

\* #resize: canvas.height for a clientWidth, (clientWidth || 960) capped at
\* 1100 and divided by 16 / 9, rounded down
resize(clientWidth) ==
  LET width == Min(1100, IF clientWidth = 0 THEN 960 ELSE clientWidth)
  IN  ((width * 9) \div 16) * 1000

\* #spawnBlock: y = -size - 10, speed from the difficulty of the moment
spawnBlock(bs, d, h, mapping) ==
  Append(bs, Block_new(-blockBaseSize - 10000, blockBaseSize,
                       fallSpeedFor(d, h), mapping))

\* "check bottom collisions" that leaves the blocks already marked alone
RECURSIVE sweepBottom_skipmarked(_, _, _)
sweepBottom_skipmarked(bs, i, acc) ==
  IF i > Len(bs) THEN acc
  ELSE IF bs[i].y > hitBottomOf(acc.height) /\ ~bs[i].markedForRemoval
       THEN sweepBottom_skipmarked(bs, i + 1,
              [acc EXCEPT !.blocks = Append(acc.blocks,
                                       [bs[i] EXCEPT !.markedForRemoval = TRUE]),
                          !.ss = miss(acc.ss),
                          !.g = damage(acc.g),
                          !.hist = noteDamage(noteMiss(acc.hist), acc.g.lives),
                          !.misses = acc.misses + 1,
                          !.damages = acc.damages + 1])
       ELSE sweepBottom_skipmarked(bs, i + 1,
              [acc EXCEPT !.blocks = Append(acc.blocks, bs[i])])

\* "check bottom collisions" of update(): the blocks in order, from index i on
RECURSIVE sweepBottom(_, _, _)
sweepBottom(bs, i, acc) ==
  IF i > Len(bs) THEN acc
  ELSE IF bs[i].y > hitBottomOf(acc.height)
       THEN sweepBottom(bs, i + 1,
              [acc EXCEPT !.blocks = Append(acc.blocks,
                                       [bs[i] EXCEPT !.markedForRemoval = TRUE]),
                          !.ss = miss(acc.ss),
                          !.g = damage(acc.g),
                          !.hist = noteDamage(noteMiss(acc.hist), acc.g.lives),
                          !.misses = acc.misses + 1,
                          !.damages = acc.damages + 1])
       ELSE sweepBottom(bs, i + 1,
              [acc EXCEPT !.blocks = Append(acc.blocks, bs[i])])

\* update(dt) on the game record; mapping is the draw of Random.choice(COLORS)
update(gm, dt, mapping) ==
  LET d1  == DifficultyManager_update(gm.difficulty, dt)
      t1  == gm.spawnTimer - dt
      bs1 == IF t1 <= 0 THEN spawnBlock(gm.blocks, d1, gm.height, mapping)
                        ELSE gm.blocks
      t2  == IF t1 <= 0 THEN d1.spawnInterval ELSE t1
      bs2 == SeqMap(LAMBDA b : Block_update(b, dt), bs1)
      sw  == sweepBottom(bs2, 1,
               [blocks |-> <<>>, ss |-> gm.scoreSystem, height |-> gm.height,
                g |-> [health |-> gm.health, lives |-> gm.lives,
                       state |-> gm.state],
                hist |-> gm.hist, misses |-> 0, damages |-> 0])
      bs3 == SelectSeq(sw.blocks, LAMBDA b : ~b.markedForRemoval)
      ps1 == SeqMap(LAMBDA p : Particle_update(p, dt), gm.particles)
      ps2 == SelectSeq(ps1, LAMBDA p : p.alive)
  \* w is the value of sw, computed once
  IN  CHOOSE r \in
        {[gm EXCEPT !.difficulty = d1, !.spawnTimer = t2, !.blocks = bs3,
                    !.scoreSystem = w.ss, !.health = w.g.health,
                    !.lives = w.g.lives, !.state = w.g.state,
                    !.particles = ps2, !.hist = w.hist,
                    !.misses = w.misses, !.damages = w.damages] :
           w \in {sw}} : TRUE

\* #attemptMatch(key); life is the draw of the burst's Random.range(0.35, 0.7)
attemptMatch(gm, key, life) ==
  IF gm.state # "running" THEN gm
  ELSE LET c == findCandidate(gm.blocks, key, gm.height)
       IN  IF c # 0
             THEN [gm EXCEPT !.blocks[c].markedForRemoval = TRUE,
                             !.particles = Append(gm.particles, Particle_new(life)),
                             !.scoreSystem = hit(gm.scoreSystem).ss,
                             !.difficulty = onGoodHit(gm.difficulty),
                             !.hist = noteHit(gm.hist),
                             !.acted = TRUE, !.cand = c, !.hits = 1,
                             !.gained = hit(gm.scoreSystem).points]
             ELSE [gm EXCEPT !.scoreSystem = miss(gm.scoreSystem),
                             !.hist = noteMiss(gm.hist),
                             !.acted = TRUE, !.misses = 1]

\* start() that keeps the score and the difficulty of the game before
start_keepscore(gm) ==
  [gm EXCEPT !.state = "running", !.blocks = <<>>, !.particles = <<>>,
             !.spawnTimer = 0, !.health = 1000, !.lives = 3,
             !.pending = gm.pending + 1, !.clock = 0,
             !.hist = NoHistory(3), !.acted = TRUE]

\* start(): full reset and one requestAnimationFrame
start(gm) ==
  [gm EXCEPT !.state = "running", !.blocks = <<>>, !.particles = <<>>,
             !.scoreSystem = ScoreSystem_reset(gm.scoreSystem),
             !.difficulty = DifficultyManager_reset(gm.difficulty),
             !.spawnTimer = 0, !.health = 1000, !.lives = 3,
             !.pending = gm.pending + 1, !.clock = 0,
             !.hist = NoHistory(3), !.acted = TRUE]

pause(gm) == [gm EXCEPT !.state = "paused", !.acted = TRUE]

resume(gm) ==
  IF gm.state = "paused"
    THEN [gm EXCEPT !.state = "running", !.pending = gm.pending + 1,
                    !.acted = TRUE]
    ELSE gm

\* the handler pausing whatever is not paused
togglePause_anystate(gm) ==
  IF gm.state = "paused" THEN resume(gm) ELSE pause(gm)

\* the handler of ' ' in #bindKeys and of the pause button
togglePause(gm) ==
  IF gm.state = "running" THEN pause(gm)
  ELSE IF gm.state = "paused" THEN resume(gm)
  ELSE gm

\* #loop without the test of the state
loop_nostatecheck(gm, dt, mapping) ==
  LET u == update([gm EXCEPT !.dt = dt], dt, mapping)
  IN  [u EXCEPT !.pending = u.pending + 1, !.clock = u.clock + dt,
                !.acted = TRUE]

\* #loop for one callback of the frame; dt is already capped at MaxDt
loop(gm, dt, mapping) ==
  IF gm.state # "running" THEN gm
  ELSE LET u == update([gm EXCEPT !.dt = dt], dt, mapping)
       IN  [u EXCEPT !.pending = u.pending + 1, !.clock = u.clock + dt,
                     !.acted = TRUE]

\* ---------------------------------------------------------- state machine
\* the program's state as one record, with the fields of ev cleared
This(op, key) ==
  [state |-> state, blocks |-> blocks, particles |-> particles,
   scoreSystem |-> scoreSystem, difficulty |-> difficulty,
   spawnTimer |-> spawnTimer, health |-> health, lives |-> lives,
   height |-> height, pending |-> pending, clock |-> clock, hist |-> hist,
   op |-> op, key |-> key, acted |-> FALSE, cand |-> 0, hits |-> 0,
   misses |-> 0, damages |-> 0, gained |-> 0, dt |-> 0,
   combo0 |-> scoreSystem.combo, score0 |-> scoreSystem.score]

Put(gm) ==
  /\ state' = gm.state
  /\ blocks' = gm.blocks
  /\ particles' = gm.particles
  /\ scoreSystem' = gm.scoreSystem
  /\ difficulty' = gm.difficulty
  /\ spawnTimer' = gm.spawnTimer
  /\ health' = gm.health
  /\ lives' = gm.lives
  /\ height' = gm.height
  /\ pending' = gm.pending
  /\ clock' = gm.clock
  /\ hist' = gm.hist
  /\ ev' = [op |-> gm.op, key |-> gm.key, acted |-> gm.acted, cand |-> gm.cand,
            hits |-> gm.hits, misses |-> gm.misses, damages |-> gm.damages,
            gained |-> gm.gained, dt |-> gm.dt, combo0 |-> gm.combo0,
            score0 |-> gm.score0]

\* the state after new Game(canvas)
Init ==
  /\ state = "start"
  /\ blocks = <<>>
  /\ particles = <<>>
  /\ scoreSystem = ScoreSystem_new
  /\ difficulty = DifficultyManager_new
  /\ spawnTimer = 0
  /\ health = 1000
  /\ lives = 5
  /\ \E cw \in ClientWidths : height = resize(cw)
  /\ pending = 0
  /\ ready = 0
  /\ sameFrame = FALSE
  /\ clock = 0
  /\ hist = NoHistory(5)
  /\ ev = NoEvent

\* Input events are dispatched between frames, never among the callbacks of
\* one frame.
Idle == ready = 0

\* click on #startButton; the start panel is shown in START only
StartClick ==
  /\ Idle /\ state = "start"
  /\ Put(start(This("start", "")))
  /\ UNCHANGED <<ready, sameFrame>>

\* click on #restartButton; the game-over panel is shown in GAME_OVER only
RestartClick ==
  /\ Idle /\ state = "game_over"
  /\ pending < MaxPending
  /\ Put(start(This("start", "")))
  /\ UNCHANGED <<ready, sameFrame>>

\* keydown ' '
SpaceKey ==
  /\ Idle
  /\ state = "paused" => pending < MaxPending
  /\ Put(togglePause(This("togglePause", " ")))
  /\ UNCHANGED <<ready, sameFrame>>

\* click on #pauseButton
PauseClick ==
  /\ Idle
  /\ state = "paused" => pending < MaxPending
  /\ Put(togglePause(This("togglePause", " ")))
  /\ UNCHANGED <<ready, sameFrame>>

\* keydown of a colour key, held-key repeats included
ColourKey(maxScore, keys) ==
  \E key \in keys, life \in ParticleLives :
    /\ Idle
    /\ LET gm == attemptMatch(This("key", key), key, life)
       IN  /\ gm.hits > 0 => scoreSystem.score < maxScore
           /\ Put(gm)
    /\ UNCHANGED <<ready, sameFrame>>

\* keydown of a colour key late in the game
LateColourKey ==
  /\ clock >= LateClock
  /\ ColourKey(MaxScore, PressKeys)

\* keydown of a key nobody listens to, handled like a colour key without
\* a block
OtherKey_asmiss ==
  /\ Idle
  /\ Put(IF state = "running"
           THEN [This("otherKey", "x") EXCEPT
                   !.scoreSystem = miss(scoreSystem), !.hist = noteMiss(hist),
                   !.acted = TRUE, !.misses = 1]
           ELSE This("otherKey", "x"))
  /\ UNCHANGED <<ready, sameFrame>>

\* keydown of a key nobody listens to: #onKey finds no callbacks
OtherKey ==
  /\ Idle
  /\ Put(This("otherKey", "x"))
  /\ UNCHANGED <<ready, sameFrame>>

\* the window's resize event
Resize ==
  \E cw \in ResizeWidths :
    /\ Idle
    /\ resize(cw) # height
    /\ Put([This("resize", "") EXCEPT !.height = resize(cw), !.acted = TRUE])
    /\ UNCHANGED <<ready, sameFrame>>

\* the window's resize event, arriving at one of the instants of ResizeTimes
TimedResize ==
  \E cw \in ShrinkWidths :
    /\ Idle
    /\ clock \in ResizeTimes
    /\ resize(cw) # height
    /\ Put([This("resize", "") EXCEPT !.height = resize(cw), !.acted = TRUE])
    /\ UNCHANGED <<ready, sameFrame>>

\* One requestAnimationFrame callback runs.  With none left of the current
\* frame the browser begins the next frame with the callbacks queued so far;
\* the callbacks of one frame get the same timestamp, so only the first one
\* that updates sees time pass.
Loop(maxClock) ==
  \E d \in FrameDts, mapping \in SpawnKeys :
    LET rdy  == IF ready = 0 THEN pending ELSE ready
        pnd  == IF ready = 0 THEN 0 ELSE pending
        same == IF ready = 0 THEN FALSE ELSE sameFrame
        dt   == IF same THEN 0 ELSE Min(MaxDt, d)
    IN  /\ rdy > 0
        /\ state = "running" => clock < maxClock
        /\ \E gm \in {loop([This("loop", "") EXCEPT !.pending = pnd],
                            dt, mapping)} : Put(gm)
        /\ ready' = rdy - 1
        /\ sameFrame' = IF rdy - 1 = 0 THEN FALSE
                        ELSE IF state = "running" THEN TRUE ELSE same

\* the game with a player who matches blocks, for a short while
Next ==
  \/ StartClick
  \/ SpaceKey
  \/ PauseClick
  \/ ColourKey(MaxScore, PressKeys)
  \/ OtherKey
  \/ Loop(MaxClock)

Spec == Init /\ [][Next]_vars

\* the game with a player who builds a combo on the first block with one key
NextCombo ==
  \/ StartClick
  \/ SpaceKey
  \/ PauseClick
  \/ ColourKey(MaxComboScore, ComboKeys)
  \/ OtherKey
  \/ Loop(MaxComboClock)

SpecCombo == Init /\ [][NextCombo]_vars

\* the game with a player who never matches a block, until the game is over
NextLong ==
  \/ StartClick
  \/ RestartClick
  \/ SpaceKey
  \/ PauseClick
  \/ ColourKey(0, PressKeys)
  \/ OtherKey
  \/ Loop(MaxLongClock)

SpecLong == Init /\ [][NextLong]_vars

\* the game with a player who resizes the window and never pauses
NextResize ==
  \/ StartClick
  \/ Resize
  \/ ColourKey(MaxScore, PressKeys)
  \/ Loop(MaxResizeClock)

SpecResize == Init /\ [][NextResize]_vars

\* a frame callback that finds the game running, and so calls update(dt)
LiveTick == state = "running" /\ Loop(MaxLiveClock)

\* a frame callback that finds the game not running, and returns
IdleTick == state # "running" /\ Loop(MaxLiveClock)

\* the toggle that ends a pause
Resume == state = "paused" /\ (SpaceKey \/ PauseClick)

\* the game with a player who never matches a block
NextLive ==
  \/ StartClick
  \/ RestartClick
  \/ SpaceKey
  \/ PauseClick
  \/ ColourKey(0, PressKeys)
  \/ Loop(MaxLiveClock)

\* The browser runs every requestAnimationFrame callback that is queued
\* (WF of IdleTick, SF of LiveTick).  The player does not leave the game
\* paused for ever (WF of Resume) and does not keep every frame from finding
\* the game running by pausing before it (SF of LiveTick): frames keep
\* updating the game.
SpecLive ==
  /\ Init /\ [][NextLive]_vars
  /\ WF_vars(IdleTick)
  /\ WF_vars(Resume)
  /\ SF_vars(LiveTick)

\* the game with a player who matches blocks shortly before the game is over
NextRestart ==
  \/ StartClick
  \/ RestartClick
  \/ LateColourKey
  \/ Loop(MaxLongClock)

SpecRestart == Init /\ [][NextRestart]_vars

\* the game with a player who never presses a key and resizes the window:
\* blocks spawned in a low canvas keep their low speed in a high one
NextShrink ==
  \/ StartClick
  \/ TimedResize
  \/ Loop(MaxShrinkClock)

SpecShrink == Init /\ [][NextShrink]_vars

\* ------------------------------------------- the ScoreSystem on its own
ScoreHit ==
  /\ scoreSystem.score < MaxHarnessScore
  /\ scoreSystem' = hit(scoreSystem).ss
  /\ hist' = noteHit(hist)
  /\ ev' = [NoEvent EXCEPT !.op = "hit", !.acted = TRUE, !.hits = 1,
                           !.gained = hit(scoreSystem).points]
  /\ UNCHANGED <<gameVars, difficulty>>

ScoreMiss ==
  /\ scoreSystem' = miss(scoreSystem)
  /\ hist' = noteMiss(hist)
  /\ ev' = [NoEvent EXCEPT !.op = "miss", !.acted = TRUE, !.misses = 1]
  /\ UNCHANGED <<gameVars, difficulty>>

ScoreReset ==
  /\ scoreSystem' = ScoreSystem_reset(scoreSystem)
  /\ hist' = noteReset(hist)
  /\ ev' = [NoEvent EXCEPT !.op = "reset", !.acted = TRUE]
  /\ UNCHANGED <<gameVars, difficulty>>

NextScore == ScoreHit \/ ScoreMiss \/ ScoreReset

SpecScore == Init /\ [][NextScore]_vars

\* ------------------------------------- the DifficultyManager on its own
DifficultyUpdate ==
  \E dt \in HarnessDts :
    /\ difficulty.level < MaxHarnessLevel
    /\ difficulty' = DifficultyManager_update(difficulty, dt)
    /\ ev' = [NoEvent EXCEPT !.op = "update", !.acted = TRUE, !.dt = dt]
    /\ UNCHANGED <<gameVars, scoreSystem, hist>>

DifficultyOnGoodHit ==
  /\ difficulty.level < MaxHarnessLevel
  /\ difficulty' = onGoodHit(difficulty)
  /\ ev' = [NoEvent EXCEPT !.op = "onGoodHit", !.acted = TRUE]
  /\ UNCHANGED <<gameVars, scoreSystem, hist>>

DifficultyReset ==
  /\ difficulty' = DifficultyManager_reset(difficulty)
  /\ ev' = [NoEvent EXCEPT !.op = "reset", !.acted = TRUE]
  /\ UNCHANGED <<gameVars, scoreSystem, hist>>

NextDifficulty == DifficultyUpdate \/ DifficultyOnGoodHit \/ DifficultyReset

SpecDifficulty == Init /\ [][NextDifficulty]_vars

\* ------------------------------------------------------------ properties
Running == state = "running"

\* C1: in every reachable state of the game the combo multiplier is an
\* integer from 1 to 10.
C1_ComboInRange == scoreSystem.combo \in 1..10

\* the combo is at its cap and a further fifth hit has left it there
C1_Witness ==
  /\ Running /\ ev.op = "key" /\ ev.hits = 1
  /\ scoreSystem.streak = 50 /\ scoreSystem.combo = 10

ComboOfStreak(n) == Min(10, 1 + n \div 5)

\* C2: after the s-th hit() since reset() with no miss() between, streak is s
\* and combo is min(10, 1 + floor(s / 5)).
C2_ComboFollowsStreak ==
  hist.clean => /\ scoreSystem.streak = hist.hits
                /\ scoreSystem.combo = ComboOfStreak(hist.hits)

C2_Witness ==
  /\ ev.op = "hit" /\ hist.clean /\ hist.hits = 47
  /\ scoreSystem.combo = 10

RECURSIVE SumPoints(_)
SumPoints(n) == IF n = 0 THEN 0 ELSE 10 * ComboOfStreak(n) + SumPoints(n - 1)

\* C3: after N hit() calls from reset with no miss, score is the sum over
\* i = 1..N of 10 * min(10, 1 + floor(i / 5)); each hit() returns the points
\* it added, 10 times the combo after its update; 5 hits give combo 2, score 60.
C3_ScoreIsSum ==
  /\ [](hist.clean => scoreSystem.score = SumPoints(hist.hits))
  /\ [](hist.clean /\ hist.hits = 5 =>
          scoreSystem.combo = 2 /\ scoreSystem.score = 60)
  /\ [][ev'.op = "hit" =>
          /\ ev'.gained = scoreSystem'.score - scoreSystem.score
          /\ ev'.gained = 10 * scoreSystem'.combo]_vars

C3_Witness ==
  /\ ev.op = "hit" /\ ev.gained = 20 /\ hist.clean /\ hist.hits = 5
  /\ scoreSystem.score = 60

\* C4: after any sequence of update(dt), onGoodHit() and reset() the spawn
\* interval is at least 0.35 s and the base fall time at least 0.7 s.
C4_FloorsHold ==
  /\ difficulty.spawnInterval >= 350
  /\ difficulty.baseFallTime >= 700

\* both formulas are below their floors and both values sit on them
C4_Witness ==
  /\ ev.op \in {"update", "onGoodHit"}
  /\ 1200 - difficulty.level * 6 < 350
  /\ 2000 - difficulty.level * 12 < 700
  /\ difficulty.spawnInterval = 350
  /\ difficulty.baseFallTime = 700

TestHeights == {resize(cw) : cw \in ResizeWidths \cup {0}}

\* C5: for a fixed height h, fallSpeedFor(h) never decreases when onGoodHit()
\* or a 12-second tick of update() raises the level, and never exceeds
\* h / capFallTime.
C5_SpeedMonotone ==
  /\ [](\A h \in TestHeights :
          fallSpeedFor(difficulty, h) * 700 <= h * 1000)
  /\ [][(ev'.op \in {"update", "onGoodHit"}
          /\ difficulty'.level > difficulty.level) =>
        \A h \in TestHeights :
          fallSpeedFor(difficulty', h) >= fallSpeedFor(difficulty, h)]_vars

\* the speed has risen from its initial value to the cap
C5_Witness ==
  /\ ev.op = "update" /\ difficulty.elapsed = 0 /\ difficulty.level > 110
  /\ \A h \in TestHeights :
       /\ fallSpeedFor(difficulty, h) = (h * 1000) \div 700
       /\ fallSpeedFor(difficulty, h) > fallSpeedFor(DifficultyManager_new, h)

\* a block with the pressed key whose extent overlaps the hit-zone band
Eligible(b, key, h) ==
  /\ b.key = key
  /\ b.y + b.size >= h - 90000 - 24000
  /\ b.y <= h - 24000

EligibleSet(bs, key, h) == {i \in DOMAIN bs : Eligible(bs[i], key, h)}

\* C6: while RUNNING a colour-key press with no block of that key in the
\* hit-zone band registers a miss (streak 0, combo 1) and leaves the block
\* collection unchanged.
C6_MissLeavesBlocks ==
  [][(ev'.op = "key" /\ Running /\ EligibleSet(blocks, ev'.key, height) = {}) =>
       /\ ev'.misses = 1 /\ ev'.hits = 0
       /\ scoreSystem'.streak = 0
       /\ scoreSystem'.combo = 1
       /\ blocks' = blocks]_vars

\* a press that missed with a block on the screen and reset a combo above 1
C6_Witness ==
  /\ Running /\ ev.op = "key" /\ ev.misses = 1 /\ ev.combo0 > 1
  /\ blocks # <<>>
  /\ EligibleSet(blocks, ev.key, height) = {}
  /\ scoreSystem.combo = 1 /\ scoreSystem.streak = 0

\* C7: while RUNNING a colour-key press with eligible blocks marks exactly
\* one block, the eligible block with the greatest y and among several of
\* that y the first of the collection; no other block is changed.
C7_LowestFirstMarked ==
  [][(ev'.op = "key" /\ Running /\ EligibleSet(blocks, ev'.key, height) # {}) =>
       \E c \in EligibleSet(blocks, ev'.key, height) :
         /\ \A j \in EligibleSet(blocks, ev'.key, height) :
              /\ blocks[j].y <= blocks[c].y
              /\ blocks[j].y = blocks[c].y => c <= j
         /\ ev'.cand = c /\ ev'.hits = 1
         /\ blocks' = [blocks EXCEPT ![c].markedForRemoval = TRUE]]_vars

\* a press with two eligible blocks of the same y: the first one is marked,
\* the second one is not
C7_Witness ==
  /\ Running /\ ev.op = "key" /\ ev.hits = 1
  /\ \E j \in EligibleSet(blocks, ev.key, height) :
       /\ j > ev.cand
       /\ blocks[j].y = blocks[ev.cand].y
       /\ ~blocks[j].markedForRemoval
  /\ blocks[ev.cand].markedForRemoval

\* C8: from health 1, three #damage calls in succession take one life and
\* restore health to 1: the first two subtract 0.34 each and leave lives
\* alone, the third takes exactly one life and sets health to 1.
C8_ThreeDamagesOneLife ==
  /\ hist.dmg = 0 => health = 1000 /\ lives = hist.lives0
  /\ hist.dmg = 1 => health = 660 /\ lives = hist.lives0
  /\ hist.dmg = 2 => health = 320 /\ lives = hist.lives0
  /\ hist.dmg = 3 => health = 1000 /\ lives = hist.lives0 - 1

C8_Witness ==
  /\ ev.op = "loop" /\ ev.damages = 1 /\ hist.dmg = 3
  /\ health = 1000 /\ lives = 2 /\ hist.lives0 = 3

\* the blocks that the movement of a tick of dt carries past the bottom
PassedSet(bs, dt, h) ==
  {i \in DOMAIN bs : bs[i].y + (bs[i].speed * dt) \div 1000 > h - 24000}

\* C9: update(dt) removes every block that has passed the bottom boundary in
\* the same tick and calls miss() and #damage once for each of them; the
\* first such block of a fresh game leaves combo 1, health 0.66 and lives 3.
C9_PassedBlocksCount ==
  [][(ev'.op = "loop" /\ Running) =>
       LET n == Cardinality(PassedSet(blocks, ev'.dt, height))
       IN  /\ \A i \in DOMAIN blocks' : blocks'[i].y <= height - 24000
           /\ ev'.misses = n
           /\ ev'.damages = n
           /\ n > 0 => scoreSystem'.combo = 1 /\ scoreSystem'.streak = 0
           /\ (n = 1 /\ hist.dmg = 0 /\ health = 1000 /\ lives = 3) =>
                health' = 660 /\ lives' = 3]_vars

\* the first block of a fresh game has fallen through, after a match had
\* raised the streak
C9_Witness ==
  /\ ev.op = "loop" /\ ev.misses = 1 /\ ev.damages = 1
  /\ hist.dmg = 1 /\ health = 660 /\ lives = 3
  /\ scoreSystem.score > 0 /\ scoreSystem.combo = 1 /\ scoreSystem.streak = 0

\* C10: after any handler has run to completion, lives <= 0 implies
\* GAME_OVER: a running or paused game has at least one life.
C10_NoLivesGameOver ==
  /\ lives <= 0 => state = "game_over"
  /\ state \in {"running", "paused"} => lives >= 1

C10_Witness ==
  /\ ev.op = "loop" /\ ev.damages = 1 /\ lives = 0 /\ state = "game_over"

\* C11: in every reachable state lives is an integer from 0 to 5; it never
\* becomes negative, also when several blocks pass the bottom boundary in
\* one tick and #damage goes on after lives has reached 0.
C11_LivesInRange == lives \in 0..5

\* C12: the player has 5 lives to play a game with: immediately after
\* start(), first start or restart, lives equals 5, the number of hearts of
\* the lives display.
C12_FiveLivesAfterStart == (ev.op = "start" /\ ev.acted) => lives = 5

\* C13: under start and restart clicks, space-key and pause-button toggles,
\* colour-key presses and frame callbacks the state changes only along
\* START->RUNNING (start), RUNNING->PAUSED (pause), PAUSED->RUNNING (resume),
\* RUNNING->GAME_OVER (lives exhausted) and GAME_OVER->RUNNING (start); START
\* is never re-entered and PAUSED never goes directly to GAME_OVER.
C13_StateEdges ==
  [][state' # state =>
       \/ state = "start" /\ state' = "running" /\ ev'.op = "start"
       \/ state = "running" /\ state' = "paused" /\ ev'.op = "togglePause"
       \/ state = "paused" /\ state' = "running" /\ ev'.op = "togglePause"
       \/ /\ state = "running" /\ state' = "game_over"
          /\ ev'.op = "loop" /\ lives' <= 0
       \/ state = "game_over" /\ state' = "running" /\ ev'.op = "start"]_vars

\* a game restarted after a game over, while the frame that the last tick
\* requested is still queued
C13_Witness ==
  /\ Running /\ ev.op = "start" /\ pending = 2 /\ lives = 3

C15_FrozenUnlessRunning ==
  [][(state # "running" /\ ev'.op \in {"loop", "key"}) =>
       /\ UNCHANGED <<blocks, particles, scoreSystem, difficulty,
                      spawnTimer, health, lives>>
       /\ ev'.op = "loop" => pending' + ready' = pending + ready - 1]_vars

\* the frame requested before a pause has fired during the pause, with
\* blocks on the screen, and no frame is queued any more
C15_Witness ==
  /\ state = "paused" /\ ev.op = "loop" /\ ~ev.acted
  /\ blocks # <<>> /\ pending + ready = 0

\* C16: in every reachable state, also right after construction and right
\* after reset(), baseFallTime = max(0.7, 2.0 - 0.12 * level) and
\* spawnInterval = max(0.35, 1.2 - 0.06 * level), where level rises by 0.1
\* for each successful hit and by 1 each time elapsed reaches 12 seconds.
C16_DerivedFromLevel ==
  /\ [](/\ difficulty.baseFallTime = Max(700, 2000 - 12 * difficulty.level)
        /\ difficulty.spawnInterval = Max(350, 1200 - 6 * difficulty.level))
  /\ [][/\ ev'.op = "onGoodHit" => difficulty'.level = difficulty.level + 1
        /\ ev'.op = "update" =>
              difficulty'.level =
                IF difficulty.elapsed + ev'.dt >= 12000
                  THEN difficulty.level + 10 ELSE difficulty.level]_vars

\* C17: a key-down for a key that is neither a colour key nor space is a
\* miss-equivalent action: while RUNNING it has the effect of a miss on the
\* ScoreSystem (streak becomes 0, combo becomes 1), removes no block and
\* raises no error.
C17_OtherKeyIsMiss ==
  [][(ev'.op = "otherKey" /\ Running) =>
       /\ scoreSystem'.streak = 0 /\ scoreSystem'.combo = 1
       /\ blocks' = blocks]_vars

\* C17 as amended: a key-down for a key that is neither a colour key nor
\* space is ignored in every state: it changes nothing of the game, the
\* streak and the combo included, and removes no block.
C17_OtherKeyIgnored ==
  [][ev'.op = "otherKey" =>
       UNCHANGED <<state, blocks, particles, scoreSystem, difficulty,
                   spawnTimer, health, lives, height, pending, ready>>]_vars

\* such a key pressed in a running game with a streak and a block on the
\* screen
C17_Witness ==
  /\ Running /\ ev.op = "otherKey" /\ scoreSystem.streak > 0
  /\ blocks # <<>>

\* C18: a block that a key press has matched never afterwards counts as a
\* missed block: between its match and its removal in the next update tick
\* it triggers no miss() and no #damage, also when that tick's movement
\* carries it past the bottom boundary.
C18_MatchedNeverMissed ==
  [][(ev'.op = "loop" /\ Running) =>
       LET unmatched == {i \in PassedSet(blocks, ev'.dt, height) :
                           ~blocks[i].markedForRemoval}
       IN  /\ ev'.misses = Cardinality(unmatched)
           /\ ev'.damages = Cardinality(unmatched)]_vars

\* C19: each block is matched at most once over its lifetime: whatever the
\* interleaving of key-down events and frame callbacks, one block yields at
\* most one hit(), one onGoodHit() and one burst of 24 particles; so no
\* press scores on a block that an earlier press has matched.
C19_MatchedOnce ==
  [][(ev'.op = "key" /\ ev'.hits = 1) =>
       ~blocks[ev'.cand].markedForRemoval]_vars

\* C20: at most one animation-frame callback is pending at any time: no
\* interleaving of start(), pause(), resume(), game over and restart with a
\* still-pending frame callback leaves two frame loops running at once.
C20_OneFramePending == pending + ready <= 1

====
